---- MODULE Spec2Model ----
(***************************************************************************)
(* Model of legal-neuro-trainer/app.py: a Flask application that keeps a   *)
(* vocabulary dataset (category -> term -> translation) in one JSON file,  *)
(* runs a recall quiz whose progress lives in the browser session, and     *)
(* edits the dataset through a form page and a JSON API.                   *)
(*                                                                         *)
(* Strings are sequences of one-character strings, so that str.strip and   *)
(* str.lower are computed character by character.  A Python dict is the    *)
(* sequence of its <<key, value>> pairs in insertion order.  The Cyrillic  *)
(* texts of the seed dataset are written in Latin transliteration.         *)
(***************************************************************************)
EXTENDS Integers, Sequences, FiniteSets, TLC

VARIABLES
    file,       \* the durable file data/legal_words.json
    session,    \* the Flask session of the one browser
    response,   \* the response to the last request
    before,     \* the file and the session as the last request found them,
                \* the arguments of its URL, its form or JSON body, and
                \* whether it repeats the request handled just before it
    nupd,       \* number of POST and DELETE requests on the dataset so far
    nquiz,      \* number of quiz requests (start, answer) so far
    pc,         \* concurrent requests: position of each request
    req,        \* concurrent requests: the request each one carries
    local,      \* concurrent requests: what load_data returned to each handler
    lastSave,   \* concurrent requests: the request that called save_data last
    arg,        \* store: the dataset handed to the last save_data call
    loaded      \* store: the value returned by the last load_data call

vars == <<file, session, response, before, nupd, nquiz, pc, req, local, lastSave, arg, loaded>>

webVars == <<session, response, before, nupd, nquiz>>
concVars == <<pc, req, local, lastSave>>
storeVars == <<arg, loaded>>

----------------------------------------------------------------------------
(* Bounds of the model *)

\* POST and DELETE requests on the dataset in one run
MaxUpdates == 2

\* GET /test/<category> and POST /check_answer requests in one run
MaxQuizSteps == 3

\* categories of a dataset handed to save_data in the store specification
MaxStoreCats == 2

----------------------------------------------------------------------------
(* Python values *)

\* Python's None (a missing JSON field read by request.json.get)
None == <<"<None>">>

\* JSON's null token in the file
JsonNull == <<"<null>">>

UpperChars == <<"A","B","C","D","E","F","G","H","I","J","K","L","M",
                "N","O","P","Q","R","S","T","U","V","W","X","Y","Z">>

LowerChars == <<"a","b","c","d","e","f","g","h","i","j","k","l","m",
                "n","o","p","q","r","s","t","u","v","w","x","y","z">>

\* str.lower on one character
LowerChar(c) ==
    IF \E i \in 1..26 : UpperChars[i] = c
    THEN LowerChars[CHOOSE i \in 1..26 : UpperChars[i] = c]
    ELSE c

\* str.lower
Lower(s) == [i \in 1..Len(s) |-> LowerChar(s[i])]

IsSpace(c) == c \in {" ", "\t", "\n"}

\* str.strip: drops the leading and the trailing whitespace
Strip(s) ==
    LET keep == {i \in 1..Len(s) : ~IsSpace(s[i])}
    IN  IF keep = {} THEN <<>>
        ELSE LET lo == CHOOSE i \in keep : \A j \in keep : i <= j
                 hi == CHOOSE i \in keep : \A j \in keep : j <= i
             IN  SubSeq(s, lo, hi)

\* truth value of a str or None in a condition
Truthy(v) == v # None /\ v # <<>>

----------------------------------------------------------------------------
(* Python dict, as the sequence of its <<key, value>> pairs *)

\* key in d
DictHas(d, k) == \E i \in 1..Len(d) : d[i][1] = k

\* d[key]
DictGet(d, k) == d[CHOOSE i \in 1..Len(d) : d[i][1] = k][2]

\* d[key] = value: an existing key keeps its place, a new one goes last
DictSet(d, k, v) ==
    IF DictHas(d, k)
    THEN [i \in 1..Len(d) |-> IF d[i][1] = k THEN <<k, v>> ELSE d[i]]
    ELSE Append(d, <<k, v>>)

\* del d[key]
DictDel(d, k) == SelectSeq(d, LAMBDA p : p[1] # k)

\* list(d.items())
DictItems(d) == d

----------------------------------------------------------------------------
(* json.dump / json.load *)

\* json.dump turns a None key into the string "null"; str keys stay
JsonKey(k) == IF k = None THEN <<"n","u","l","l">> ELSE k

\* json.dump of a translation: None is written as the token null
JsonValue(v) == IF v = None THEN JsonNull ELSE v

\* json.dump(data): the document, one member per dict item, in order
JsonDump(data) ==
    [i \in 1..Len(data) |->
        <<JsonKey(data[i][1]),
          [j \in 1..Len(data[i][2]) |->
              <<JsonKey(data[i][2][j][1]), JsonValue(data[i][2][j][2])>>]>>]

\* the decoder's dict(pairs): a repeated member name keeps the place of its
\* first occurrence and the value of its last
PairsToDict(pairs) ==
    LET n == Len(pairs)
        IsFirst(i) == \A j \in 1..(i - 1) : pairs[j][1] # pairs[i][1]
        LastOf(k) == CHOOSE i \in 1..n :
                        /\ pairs[i][1] = k
                        /\ \A j \in (i + 1)..n : pairs[j][1] # k
        firsts == SelectSeq([i \in 1..n |-> i], IsFirst)
    IN  [m \in 1..Len(firsts) |->
            <<pairs[firsts[m]][1], pairs[LastOf(pairs[firsts[m]][1])][2]>>]

PyValue(v) == IF v = JsonNull THEN None ELSE v

\* json.load(f) of a document json.dump wrote
JsonLoad(doc) ==
    PairsToDict([i \in 1..Len(doc) |->
        <<doc[i][1],
          PairsToDict([j \in 1..Len(doc[i][2]) |->
              <<doc[i][2][j][1], PyValue(doc[i][2][j][2])>>])>>])

----------------------------------------------------------------------------
(* The durable file *)

\* no call yet
NoData == [has |-> FALSE]

\* the dataset of a call
Data(d) == [has |-> TRUE, data |-> d]

\* os.path.exists is false
Absent == [kind |-> "absent"]

\* the file exists and json.load raises on it
Corrupt == [kind |-> "corrupt"]

Written(doc) == [kind |-> "json", doc |-> doc]

\* strings of the seed dataset
s_civil == <<"G","r","a","z","h","d","a","n","s","k","o","e"," ","p","r","a","v","o">>
s_criminal == <<"U","g","o","l","o","v","n","o","e"," ","p","r","a","v","o">>
s_international == <<"M","e","z","h","d","u","n","a","r","o","d","n","o","e"," ","p","r","a","v","o">>
s_contract == <<"c","o","n","t","r","a","c","t">>
s_obligation == <<"o","b","l","i","g","a","t","i","o","n">>
s_property == <<"p","r","o","p","e","r","t","y">>
s_liability == <<"l","i","a","b","i","l","i","t","y">>
s_crime == <<"c","r","i","m","e">>
s_penalty == <<"p","e","n","a","l","t","y">>
s_evidence == <<"e","v","i","d","e","n","c","e">>
s_suspect == <<"s","u","s","p","e","c","t">>
s_treaty == <<"t","r","e","a","t","y">>
s_sovereignty == <<"s","o","v","e","r","e","i","g","n","t","y">>
s_diplomacy == <<"d","i","p","l","o","m","a","c","y">>
s_sanction == <<"s","a","n","c","t","i","o","n">>
r_dogovor == <<"d","o","g","o","v","o","r">>
r_obyazatelstvo == <<"o","b","y","a","z","a","t","e","l","s","t","v","o">>
r_sobstvennost == <<"s","o","b","s","t","v","e","n","n","o","s","t">>
r_otvetstvennost == <<"o","t","v","e","t","s","t","v","e","n","n","o","s","t">>
r_prestuplenie == <<"p","r","e","s","t","u","p","l","e","n","i","e">>
r_nakazanie == <<"n","a","k","a","z","a","n","i","e">>
r_dokazatelstvo == <<"d","o","k","a","z","a","t","e","l","s","t","v","o">>
r_podozrevaemyi == <<"p","o","d","o","z","r","e","v","a","e","m","y","i">>
r_suverenitet == <<"s","u","v","e","r","e","n","i","t","e","t">>
r_diplomatiya == <<"d","i","p","l","o","m","a","t","i","y","a">>
r_sanktsiya == <<"s","a","n","k","t","s","i","y","a">>

get_default_data ==
    << <<s_civil,
         << <<s_contract, r_dogovor>>,
            <<s_obligation, r_obyazatelstvo>>,
            <<s_property, r_sobstvennost>>,
            <<s_liability, r_otvetstvennost>> >> >>,
       <<s_criminal,
         << <<s_crime, r_prestuplenie>>,
            <<s_penalty, r_nakazanie>>,
            <<s_evidence, r_dokazatelstvo>>,
            <<s_suspect, r_podozrevaemyi>> >> >>,
       <<s_international,
         << <<s_treaty, r_dogovor>>,
            <<s_sovereignty, r_suverenitet>>,
            <<s_diplomacy, r_diplomatiya>>,
            <<s_sanction, r_sanktsiya>> >> >> >>

\* save_data(data): the file after the call
save_data(data) == Written(JsonDump(data))

\* a load whose parse never succeeds: every existing file reads as the seed
load_data_never_parses(f) ==
    IF f.kind = "absent"
    THEN [data |-> get_default_data, file |-> save_data(get_default_data)]
    ELSE [data |-> get_default_data, file |-> f]

\* a load that writes the seed dataset on every call, not only when the file
\* is absent
load_data_reseeding(f) ==
    [data |-> IF f.kind = "json" THEN JsonLoad(f.doc) ELSE get_default_data,
     file |-> save_data(get_default_data)]

\* load_data() on file f: the dataset returned and the file left behind
load_data(f) ==
    IF f.kind = "json"
    THEN [data |-> JsonLoad(f.doc), file |-> f]
    ELSE IF f.kind = "corrupt"
    THEN [data |-> get_default_data, file |-> f]
    ELSE [data |-> get_default_data, file |-> save_data(get_default_data)]

----------------------------------------------------------------------------
(* Request inputs *)

t_Tort == <<"T","o","r","t">>
t_TORT == <<"T","O","R","T">>
t_tort == <<"t","o","r","t">>
r_x == <<"x">>
r_Y == <<"Y">>
r_x_padded == <<" ","x"," ">>
r_wrong == <<"w","r","o","n","g">>
c_Law == <<"L","a","w">>
blank == <<" ">>

\* JSON bodies of POST /api/words; a field that is not given reads as None
ApiPosts ==
    { [english |-> t_Tort, russian |-> r_x_padded, category |-> c_Law],
      [english |-> t_tort, russian |-> r_Y, category |-> c_Law],
      [english |-> <<>>, russian |-> r_Y, category |-> s_civil],
      [english |-> t_Tort, russian |-> None, category |-> c_Law],
      [english |-> None, russian |-> r_Y, category |-> None] }

\* forms of POST /add_word; a field that is not given reads as ''
FormPosts ==
    { [english |-> t_TORT, russian |-> r_x, category |-> s_civil, new_category |-> <<>>],
      [english |-> t_TORT, russian |-> r_Y, category |-> s_civil, new_category |-> c_Law],
      [english |-> s_contract, russian |-> r_x, category |-> s_civil, new_category |-> <<>>],
      [english |-> blank, russian |-> r_x, category |-> s_civil, new_category |-> <<>>],
      [english |-> t_TORT, russian |-> <<>>, category |-> <<>>, new_category |-> c_Law],
      [english |-> t_TORT, russian |-> r_x, category |-> <<>>, new_category |-> blank] }

\* JSON bodies of DELETE /api/words
Deletes ==
    { [category |-> c_Law, english |-> None],
      [category |-> c_Law, english |-> t_tort],
      [category |-> c_Law, english |-> t_Tort],
      [category |-> s_civil, english |-> <<>>],
      [category |-> s_civil, english |-> t_tort] }

\* <category> of GET /test/<category>
TestCategory == {s_civil, c_Law}

\* the answer field of POST /check_answer: a wrong word, or the translation
\* of the current word exactly as the snapshot holds it
AnswerInputs(s) ==
    {r_wrong} \cup
    (IF s.current_index < Len(s.test_words)
        /\ s.test_words[s.current_index + 1][2] # None
     THEN {s.test_words[s.current_index + 1][2]}
     ELSE {})

----------------------------------------------------------------------------
(* Responses *)

\* render_template(...): body holds the template and its arguments
Page(route, body) == [route |-> route, tag |-> "page", body |-> body]
\* redirect(url_for(to))
Redirect(route, to) == [route |-> route, tag |-> "redirect", body |-> [to |-> to]]
\* jsonify(body)
Json(route, body) == [route |-> route, tag |-> "json", body |-> body]
\* an exception leaves the handler: the framework answers 500
Fault(route) == [route |-> route, tag |-> "fault", body |-> [status |-> "500"]]

\* no request was handled yet
NoResponse == [route |-> "", tag |-> "none", body |-> [status |-> ""]]

\* the add-word page rendered with its error argument
IsValidationError(r) == r.tag = "page" /\ "error" \in DOMAIN r.body

----------------------------------------------------------------------------
(* Quiz session *)

\* the session with no key set: every read of it takes the default of its get
EmptySession ==
    [test_words |-> <<>>, current_index |-> 0, score |-> 0, category |-> <<>>]

\* a start that forgets to reset the score
StartSessionKeepScore(words, category) ==
    [test_words |-> words, current_index |-> 0, score |-> session.score,
     category |-> category]

\* test(): the four session keys written for a new quiz
StartSession(words, category) ==
    [test_words |-> words, current_index |-> 0, score |-> 0, category |-> category]

\* check_answer(): the comparison
IsCorrect(user_answer, correct_translation) ==
    user_answer = Lower(correct_translation)

\* a handler that advances the cursor only in the branch of a wrong answer
ScoreAnswerAdvanceOnWrong(s, is_correct) ==
    IF is_correct THEN [s EXCEPT !.score = @ + 1]
    ELSE [s EXCEPT !.current_index = @ + 1]

\* check_answer(): the session keys written after an answer
ScoreAnswer(s, is_correct) ==
    [s EXCEPT !.score = IF is_correct THEN @ + 1 ELSE @,
              !.current_index = @ + 1]

\* results(): round(score/total*100, 1) if total > 0 else 0, in tenths
Percentage(sc, total) ==
    IF total > 0 THEN (2 * sc * 1000 + total) \div (2 * total) ELSE 0

----------------------------------------------------------------------------
(* Dataset mutations *)

\* add_word(): create the category if absent, then set the word
add_word_store(data, final_category, english, russian) ==
    LET d1 == IF ~DictHas(data, final_category)
              THEN DictSet(data, final_category, <<>>) ELSE data
    IN  DictSet(d1, final_category,
                DictSet(DictGet(d1, final_category), english, russian))

\* an upsert that adds the translation to the one the term already has
api_words_store_accumulating(data, category, english, russian) ==
    LET d1 == IF ~DictHas(data, category)
              THEN DictSet(data, category, <<>>) ELSE data
        words == DictGet(d1, category)
        old == IF DictHas(words, english) THEN DictGet(words, english) ELSE <<>>
    IN  DictSet(d1, category, DictSet(words, english, old \o russian))

\* api_words() POST: create the category if absent, then set the word
api_words_store(data, category, english, russian) ==
    LET d1 == IF ~DictHas(data, category)
              THEN DictSet(data, category, <<>>) ELSE data
    IN  DictSet(d1, category, DictSet(DictGet(d1, category), english, russian))

\* a DELETE that leaves the emptied category in place
api_words_remove_no_prune(data, category, english) ==
    IF Truthy(english)
    THEN IF DictHas(data, category) /\ DictHas(DictGet(data, category), english)
         THEN DictSet(data, category, DictDel(DictGet(data, category), english))
         ELSE data
    ELSE IF DictHas(data, category) THEN DictDel(data, category) ELSE data

\* a DELETE whose category branch also takes the requests whose term was
\* not found
api_words_remove_falling_through(data, category, english) ==
    IF /\ Truthy(english)
       /\ DictHas(data, category)
       /\ DictHas(DictGet(data, category), english)
    THEN LET words == DictDel(DictGet(data, category), english)
         IN  IF words = <<>> THEN DictDel(data, category)
             ELSE DictSet(data, category, words)
    ELSE IF DictHas(data, category) THEN DictDel(data, category) ELSE data

\* api_words() DELETE: remove a word (and its category once empty) or a category
api_words_remove(data, category, english) ==
    IF Truthy(english)
    THEN IF DictHas(data, category) /\ DictHas(DictGet(data, category), english)
         THEN LET words == DictDel(DictGet(data, category), english)
              IN  IF words = <<>> THEN DictDel(data, category)
                  ELSE DictSet(data, category, words)
         ELSE data
    ELSE IF DictHas(data, category) THEN DictDel(data, category) ELSE data

----------------------------------------------------------------------------
(* Request handlers, one request at a time *)

\* a request without a form or a JSON body of interest
NoBody == [none |-> TRUE]

\* the state before any request
NoRequest ==
    [file |-> Absent, session |-> EmptySession, view_args |-> <<>>,
     body |-> NoBody, repeat |-> FALSE]

\* every handler: remember the state the request found
Arrive(view_args, body, repeat) ==
    before' = [file |-> file, session |-> session, view_args |-> view_args,
               body |-> body, repeat |-> repeat]

\* a request that only reads
Read == Arrive(<<>>, NoBody, FALSE) /\ UNCHANGED <<nupd, nquiz>>

\* a request of the quiz
Quiz(view_args) ==
    /\ Arrive(view_args, NoBody, FALSE)
    /\ nquiz < MaxQuizSteps
    /\ nquiz' = nquiz + 1
    /\ UNCHANGED nupd

\* a request that posts to or deletes from the dataset; it repeats the last
\* request when that one came on the same route with the same body
Update(route, body) ==
    /\ Arrive(<<>>, body, response.route = route /\ before.body = body)
    /\ nupd < MaxUpdates
    /\ nupd' = nupd + 1
    /\ UNCHANGED nquiz

\* list(data.keys())
Categories(data) == [i \in 1..Len(data) |-> data[i][1]]

\* GET /
index ==
    /\ Read
    /\ response' = Page("GET /", [template |-> "index.html"])
    /\ UNCHANGED <<file, session, concVars, storeVars>>

\* GET /encyclopedia
encyclopedia ==
    /\ Read
    /\ \E L \in {load_data(file)} :
           /\ file' = L.file
           /\ response' = Page("GET /encyclopedia",
                  [template |-> "encyclopedia.html", data |-> L.data])
    /\ UNCHANGED <<session, concVars, storeVars>>

\* GET /testing
testing ==
    /\ Read
    /\ \E L \in {load_data(file)} :
           /\ file' = L.file
           /\ response' = Page("GET /testing",
                  [template |-> "testing.html", categories |-> Categories(L.data)])
    /\ UNCHANGED <<session, concVars, storeVars>>

\* a start that clears the session before it redirects
test_outcome_clearing(data, s, category) ==
    IF ~DictHas(data, category) \/ DictGet(data, category) = <<>>
    THEN [session |-> EmptySession, response |-> Redirect("GET /test", "testing")]
    ELSE [session |-> StartSession(DictItems(DictGet(data, category)), category),
          response |-> Page("GET /test",
              [template |-> "test.html", category |-> category,
               total |-> Len(DictGet(data, category)), current |-> 1])]

\* test(): the session and the response, given the loaded data
test_outcome(data, s, category) ==
    IF ~DictHas(data, category)
    THEN [session |-> s, response |-> Redirect("GET /test", "testing")]
    ELSE LET words == DictItems(DictGet(data, category))
         IN  IF words = <<>>
             THEN [session |-> s, response |-> Redirect("GET /test", "testing")]
             ELSE [session |-> StartSession(words, category),
                   response |-> Page("GET /test",
                       [template |-> "test.html", category |-> category,
                        total |-> Len(words), current |-> 1])]

\* GET /test/<category>
test(category) ==
    /\ Quiz(<<category>>)
    /\ \E L \in {load_data(file)} :
       \E o \in {test_outcome(L.data, session, category)} :
           /\ file' = L.file
           /\ session' = o.session
           /\ response' = o.response
    /\ UNCHANGED <<concVars, storeVars>>

\* a handler that takes the answered item out of the snapshot
check_answer_scored_consuming(s, answer) ==
    LET user_answer == Lower(Strip(answer))
        correct_translation == s.test_words[s.current_index + 1][2]
        is_correct == correct_translation # None
                      /\ IsCorrect(user_answer, correct_translation)
    IN  [session |-> [s EXCEPT !.test_words = Tail(@),
                               !.score = IF is_correct THEN @ + 1 ELSE @],
         response |-> Json("POST /check_answer",
             [correct |-> is_correct,
              correct_answer |-> correct_translation,
              finished |-> Len(s.test_words) <= 1])]

\* check_answer() past the bounds check: compare, score, advance
check_answer_scored(s, answer) ==
    LET user_answer == Lower(Strip(answer))
        words == s.test_words
        correct_translation == words[s.current_index + 1][2]
    IN  IF correct_translation = None
        THEN \* None has no lower(): AttributeError, nothing was written
             [session |-> s, response |-> Fault("POST /check_answer")]
        ELSE LET is_correct == IsCorrect(user_answer, correct_translation)
                 s1 == ScoreAnswer(s, is_correct)
             IN  [session |-> s1,
                  response |-> Json("POST /check_answer",
                      [correct |-> is_correct,
                       correct_answer |-> correct_translation,
                       finished |-> s1.current_index >= Len(words)])]

\* a handler that advances the cursor before it checks the bounds
check_answer_advance_first(s, answer) ==
    IF s.current_index >= Len(s.test_words)
    THEN [session |-> [s EXCEPT !.current_index = @ + 1],
          response |-> Json("POST /check_answer", [finished |-> TRUE])]
    ELSE check_answer_scored(s, answer)

\* check_answer(): the session and the response
check_answer_outcome(s, answer) ==
    IF s.current_index >= Len(s.test_words)
    THEN [session |-> s,
          response |-> Json("POST /check_answer", [finished |-> TRUE])]
    ELSE check_answer_scored(s, answer)

\* POST /check_answer
check_answer(answer) ==
    /\ Quiz(<<>>)
    /\ \E L \in {load_data(file)} :
       \E o \in {check_answer_outcome(session, answer)} :
           /\ file' = L.file
           /\ session' = o.session
           /\ response' = o.response
    /\ UNCHANGED <<concVars, storeVars>>

\* a results page that closes the quiz: it moves the cursor past the last item
results_closing ==
    /\ Read
    /\ response' = Page("GET /results",
           [template |-> "results.html", score |-> session.score,
            total |-> Len(session.test_words), category |-> session.category,
            percentage |-> Percentage(session.score, Len(session.test_words))])
    /\ session' = [session EXCEPT !.current_index = Len(session.test_words)]
    /\ UNCHANGED <<file, concVars, storeVars>>

\* GET /results
results ==
    /\ Read
    /\ LET sc == session.score
           total == Len(session.test_words)
       IN  response' = Page("GET /results",
               [template |-> "results.html", score |-> sc, total |-> total,
                category |-> session.category,
                percentage |-> Percentage(sc, total)])
    /\ UNCHANGED <<file, session, concVars, storeVars>>

\* GET /add_word
add_word_GET ==
    /\ Read
    /\ \E L \in {load_data(file)} :
           /\ file' = L.file
           /\ response' = Page("GET /add_word",
                  [template |-> "add_word.html", categories |-> Categories(L.data)])
    /\ UNCHANGED <<session, concVars, storeVars>>

\* a choice that prefers the category selected in the list
final_category_selected_first(new_category, category) ==
    IF category # <<>> THEN category ELSE new_category

\* add_word(): final_category = new_category if new_category else category
final_category(new_category, category) ==
    IF new_category # <<>> THEN new_category ELSE category

\* add_word() on POST: the file and the response, given what load_data gave
add_word_outcome(L, f_english, f_russian, f_category, f_new_category) ==
    LET english == Lower(Strip(f_english))
        russian == Strip(f_russian)
        category == Strip(f_category)
        new_category == Strip(f_new_category)
        chosen == final_category(new_category, category)
    IN  IF english = <<>> \/ russian = <<>>
        THEN [file |-> L.file,
              response |-> Page("POST /add_word",
                  [template |-> "add_word.html", categories |-> Categories(L.data),
                   error |-> "all fields are required"])]
        ELSE IF chosen = <<>>
        THEN [file |-> L.file,
              response |-> Page("POST /add_word",
                  [template |-> "add_word.html", categories |-> Categories(L.data),
                   error |-> "choose or create a category"])]
        ELSE LET data == add_word_store(L.data, chosen, english, russian)
             IN  [file |-> save_data(data),
                  response |-> Page("POST /add_word",
                      [template |-> "add_word.html", categories |-> Categories(data),
                       success |-> <<english, chosen>>])]

\* POST /add_word with the form fields english, russian, category, new_category
add_word_POST(f_english, f_russian, f_category, f_new_category) ==
    /\ Update("POST /add_word",
              [english |-> f_english, russian |-> f_russian,
               category |-> f_category, new_category |-> f_new_category])
    /\ \E L \in {load_data(file)} :
       \E o \in {add_word_outcome(L, f_english, f_russian, f_category,
                                  f_new_category)} :
           /\ file' = o.file
           /\ response' = o.response
    /\ UNCHANGED <<session, concVars, storeVars>>

\* GET /edit_words
edit_words ==
    /\ Read
    /\ \E L \in {load_data(file)} :
           /\ file' = L.file
           /\ response' = Page("GET /edit_words",
                  [template |-> "edit_words.html", data |-> L.data])
    /\ UNCHANGED <<session, concVars, storeVars>>

\* GET /api/words
api_words_GET ==
    /\ Read
    /\ \E L \in {load_data(file)} :
           /\ file' = L.file
           /\ response' = Json("GET /api/words", [data |-> L.data])
    /\ UNCHANGED <<session, concVars, storeVars>>

\* POST /api/words with the JSON fields english, russian, category
api_words_POST(english, russian, category) ==
    /\ Update("POST /api/words",
              [english |-> english, russian |-> russian, category |-> category])
    /\ \E L \in {load_data(file)} :
           /\ file' = save_data(api_words_store(L.data, category, english, russian))
           /\ response' = Json("POST /api/words", [success |-> TRUE])
    /\ UNCHANGED <<session, concVars, storeVars>>

\* DELETE /api/words with the JSON fields category, english
api_words_DELETE(category, english) ==
    /\ Update("DELETE /api/words", [category |-> category, english |-> english])
    /\ \E L \in {load_data(file)} :
           /\ file' = save_data(api_words_remove(L.data, category, english))
           /\ response' = Json("DELETE /api/words", [success |-> TRUE])
    /\ UNCHANGED <<session, concVars, storeVars>>

Init ==
    /\ file = Absent
    /\ session = EmptySession
    /\ response = NoResponse
    /\ before = NoRequest
    /\ nupd = 0
    /\ nquiz = 0
    /\ pc = <<>>
    /\ req = <<>>
    /\ local = <<>>
    /\ lastSave = 0
    /\ arg = NoData
    /\ loaded = NoData

Next ==
    \/ index
    \/ encyclopedia
    \/ testing
    \/ \E c \in TestCategory : test(c)
    \/ \E a \in AnswerInputs(session) : check_answer(a)
    \/ results
    \/ add_word_GET
    \/ \E f \in FormPosts :
          add_word_POST(f.english, f.russian, f.category, f.new_category)
    \/ edit_words
    \/ api_words_GET
    \/ \E b \in ApiPosts : api_words_POST(b.english, b.russian, b.category)
    \/ \E b \in Deletes : api_words_DELETE(b.category, b.english)

Spec == Init /\ [][Next]_vars

\* the same requests on a file that was edited by hand: the seed dataset and
\* one more category that has no words
InitEmptyCategory ==
    /\ file = Written(JsonDump(Append(get_default_data, <<c_Law, <<>>>>)))
    /\ session = EmptySession
    /\ response = NoResponse
    /\ before = NoRequest
    /\ nupd = 0
    /\ nquiz = 0
    /\ pc = <<>>
    /\ req = <<>>
    /\ local = <<>>
    /\ lastSave = 0
    /\ arg = NoData
    /\ loaded = NoData

SpecEmptyCategory == InitEmptyCategory /\ [][Next]_vars

----------------------------------------------------------------------------
(* The store alone: one save_data call and any number of load_data calls *)

StoreTerms == {t_tort, s_contract}
StoreTranslations == {r_x_padded, r_Y}
StoreCategories == {c_Law, s_civil, s_criminal}

\* the non-empty word mappings over the store's terms, in every order
StoreWordMaps ==
    { <<<<t, r>>>> : t \in StoreTerms, r \in StoreTranslations } \cup
    { w \in { <<<<t1, r1>>, <<t2, r2>>>> :
                  t1 \in StoreTerms, t2 \in StoreTerms,
                  r1 \in StoreTranslations, r2 \in StoreTranslations } :
          w[1][1] # w[2][1] }

\* the well-formed datasets of at most n categories: distinct category names,
\* each with a non-empty word mapping
RECURSIVE StoreDatasetsUpTo(_)
StoreDatasetsUpTo(n) ==
    IF n = 0 THEN {<<>>}
    ELSE LET smaller == StoreDatasetsUpTo(n - 1)
         IN  smaller \cup
             { Append(d, <<c, w>>) :
                 d \in {x \in smaller : Len(x) = n - 1},
                 c \in StoreCategories, w \in StoreWordMaps }

WellFormed(d) ==
    /\ \A i, j \in 1..Len(d) : d[i][1] = d[j][1] => i = j
    /\ \A i \in 1..Len(d) : d[i][2] # <<>>

StoreDatasets ==
    {d \in StoreDatasetsUpTo(MaxStoreCats) : WellFormed(d)} \cup {get_default_data}

\* save_data(d), once in a run
StoreSave(d) ==
    /\ ~arg.has
    /\ Arrive(<<>>, NoBody, FALSE)
    /\ file' = save_data(d)
    /\ arg' = Data(d)
    /\ loaded' = NoData
    /\ UNCHANGED <<session, response, nupd, nquiz, concVars>>

\* load_data()
StoreLoad ==
    /\ Arrive(<<>>, NoBody, FALSE)
    /\ \E L \in {load_data(file)} :
           /\ file' = L.file
           /\ loaded' = Data(L.data)
    /\ UNCHANGED <<arg, session, response, nupd, nquiz, concVars>>

StoreInit ==
    /\ file \in {Absent, Corrupt, save_data(get_default_data)}
    /\ session = EmptySession
    /\ response = NoResponse
    /\ before = NoRequest
    /\ nupd = 0
    /\ nquiz = 0
    /\ pc = <<>>
    /\ req = <<>>
    /\ local = <<>>
    /\ lastSave = 0
    /\ arg = NoData
    /\ loaded = NoData

StoreNext ==
    \/ \E d \in StoreDatasets : StoreSave(d)
    \/ StoreLoad

SpecStore == StoreInit /\ [][StoreNext]_vars

----------------------------------------------------------------------------
(* Two requests on /api/words at once: each loads, changes its copy, saves *)

Requests == {1, 2}

ConcRequests ==
    { [method |-> "POST", english |-> b.english, russian |-> b.russian,
       category |-> b.category] : b \in ApiPosts } \cup
    { [method |-> "DELETE", english |-> b.english, russian |-> None,
       category |-> b.category] : b \in Deletes }

\* api_words(): the handler's data when it calls save_data
api_words_changed(r, data) ==
    IF r.method = "POST"
    THEN api_words_store(data, r.category, r.english, r.russian)
    ELSE api_words_remove(data, r.category, r.english)

\* data = load_data()
ConcLoad(p) ==
    /\ pc[p] = "start"
    /\ \E L \in {load_data(file)} :
           /\ file' = L.file
           /\ local' = [local EXCEPT ![p] = L.data]
    /\ pc' = [pc EXCEPT ![p] = "loaded"]
    /\ UNCHANGED <<req, lastSave, webVars, storeVars>>

\* a save that re-reads the file and applies the change to what it holds
\* then, instead of writing the handler's own copy
ConcSaveReloaded(p) ==
    /\ pc[p] = "loaded"
    /\ file' = save_data(api_words_changed(req[p], load_data(file).data))
    /\ lastSave' = p
    /\ pc' = [pc EXCEPT ![p] = "done"]
    /\ UNCHANGED <<req, local, webVars, storeVars>>

\* the change in memory, save_data(data) and the answer
ConcSave(p) ==
    /\ pc[p] = "loaded"
    /\ file' = save_data(api_words_changed(req[p], local[p]))
    /\ lastSave' = p
    /\ pc' = [pc EXCEPT ![p] = "done"]
    /\ UNCHANGED <<req, local, webVars, storeVars>>

ConcInit ==
    /\ file \in {Absent, save_data(get_default_data)}
    /\ session = EmptySession
    /\ response = NoResponse
    /\ before = NoRequest
    /\ nupd = 0
    /\ nquiz = 0
    /\ pc = [p \in Requests |-> "start"]
    /\ req \in [Requests -> ConcRequests]
    /\ local = [p \in Requests |-> <<>>]
    /\ lastSave = 0
    /\ arg = NoData
    /\ loaded = NoData

ConcNext == \E p \in Requests : ConcLoad(p) \/ ConcSave(p)

SpecConc == ConcInit /\ [][ConcNext]_vars

----------------------------------------------------------------------------
(* What the requests guarantee *)

\* the persisted dataset: what a request arriving now would load
Persisted(f) == load_data(f).data

\* a field that is missing, or empty once trimmed
Blank(v) == v = None \/ Strip(v) = <<>>

\* the answer carries the translation the snapshot holds at the cursor
CarriesTranslation(s, a) ==
    /\ s.current_index < Len(s.test_words)
    /\ a = s.test_words[s.current_index + 1][2]

InProgress(s) == s.current_index < Len(s.test_words)

Exhausted(s) == s.current_index >= Len(s.test_words)

\* C1: in every state of a browser session the cursor lies within the
\* snapshot, 0 <= current_index <= len(test_words), and the score within the
\* cursor, 0 <= score <= current_index.
C1_SessionBounds ==
    /\ 0 <= session.current_index
    /\ session.current_index <= Len(session.test_words)
    /\ 0 <= session.score
    /\ session.score <= session.current_index

\* C1: a quiz in progress after one right and one wrong answer
C1_Witness ==
    /\ response.route = "POST /check_answer"
    /\ session.score = 1
    /\ session.current_index = 2
    /\ InProgress(session)

\* C2 (as claimed): every term key of the persisted dataset is lower-case.
C2_TermsStoredLowerCase ==
    \A D \in {Persisted(file)} :
        \A i \in 1..Len(D) : \A j \in 1..Len(D[i][2]) :
            D[i][2][j][1] = Lower(D[i][2][j][1])

\* C3 (as claimed): a POST /api/words or POST /add_word request whose term or
\* translation is missing or blank, or whose category resolves to nothing,
\* leaves the persisted dataset as it was and is answered with an error.
C3_InvalidRequestRejected ==
    [][/\ \A b \in ApiPosts :
            (/\ api_words_POST(b.english, b.russian, b.category)
             /\ (Blank(b.english) \/ Blank(b.russian) \/ Blank(b.category)))
            => /\ Persisted(file') = Persisted(file)
               /\ IsValidationError(response')
       /\ \A f \in FormPosts :
            (/\ add_word_POST(f.english, f.russian, f.category, f.new_category)
             /\ (\/ Blank(f.english) \/ Blank(f.russian)
                 \/ (Blank(f.category) /\ Blank(f.new_category))))
            => /\ Persisted(file') = Persisted(file)
               /\ IsValidationError(response')]_vars

\* C4: no category of the persisted dataset maps to an empty word mapping.
C4_NoEmptyCategory ==
    \A D \in {Persisted(file)} : \A i \in 1..Len(D) : D[i][2] # <<>>

\* C4: a DELETE found a category with a single word and left no such category
C4_Witness ==
    /\ response.route = "DELETE /api/words"
    /\ \A B \in {Persisted(before.file)} :
           /\ DictHas(B, c_Law)
           /\ Len(DictGet(B, c_Law)) = 1
           /\ DictGet(B, c_Law)[1][1] \in {t_Tort, t_tort}
    /\ ~DictHas(Persisted(file), c_Law)
    /\ DictHas(Persisted(file), s_civil)

\* C7 (as claimed): in a run of right answers (score = position so far) an
\* answer that carries the translation of the current item is scored, the
\* cursor advances, and finished is reported exactly on the last item; an
\* answer that does not match leaves the score as it was.
C7_RightAnswersScore ==
    [][\A a \in AnswerInputs(session) :
          /\ (check_answer(a) /\ CarriesTranslation(session, a)
                /\ session.score = session.current_index)
             => /\ session'.score = session.score + 1
                /\ session'.current_index = session.current_index + 1
                /\ response'.tag = "json"
                /\ response'.body.finished
                     = (session'.current_index = Len(session.test_words))
          /\ (check_answer(a) /\ InProgress(session) /\ a = r_wrong
                /\ response'.tag = "json")
             => /\ session'.score = session.score
                /\ session'.current_index = session.current_index + 1]_vars

\* C8: a submission that finds the session exhausted or never started
\* answers with the finished signal alone and leaves the session as it was.
C8_ExhaustedSubmitIsNoop ==
    (response.route = "POST /check_answer" /\ Exhausted(before.session))
    => /\ session = before.session
       /\ response = Json("POST /check_answer", [finished |-> TRUE])

\* C8: a submission after the last item of a quiz was answered
C8_Witness ==
    /\ response.route = "POST /check_answer"
    /\ Exhausted(before.session)
    /\ Len(before.session.test_words) > 0
    /\ session.score > 0

\* C9: a start on a category that exists and has words leaves position 0,
\* score 0, the requested category and the category's pairs as stored,
\* whatever the session held.
C9_RestartOverwrites ==
    response.route = "GET /test" =>
        \A c \in {before.view_args[1]} : \A B \in {Persisted(before.file)} :
            (DictHas(B, c) /\ DictGet(B, c) # <<>>)
            => session = [test_words |-> DictItems(DictGet(B, c)),
                          current_index |-> 0, score |-> 0, category |-> c]

\* C9: a start that found a quiz in progress with a scored answer
C9_Witness ==
    /\ response.route = "GET /test"
    /\ response.tag = "page"
    /\ InProgress(before.session)
    /\ before.session.score > 0
    /\ session.current_index = 0
    /\ session.score = 0

\* C5 (as claimed): a load that finds the file absent or unparsable returns
\* the seed dataset and leaves the seed dataset in the file.
C5_LoadFallsBackAndPersists ==
    (loaded.has /\ before.file.kind \in {"absent", "corrupt"})
    => /\ loaded.data = get_default_data
       /\ file = Written(JsonDump(get_default_data))

AllDone == \A p \in Requests : pc[p] = "done"

\* C6: once both requests have answered, the file holds exactly what the
\* request that saved last wrote: its own change applied to the dataset it
\* had loaded, whatever the other request saved in between.
C6_LastSaveWins ==
    AllDone =>
        file = Written(JsonDump(api_words_changed(req[lastSave], local[lastSave])))

\* C6: both requests upserted a word and answered success, and the word of
\* the one that saved first is not in the file
C6_Witness ==
    /\ AllDone
    /\ \E p \in Requests : \E D \in {Persisted(file)} :
           /\ p # lastSave
           /\ req[p].method = "POST" /\ req[lastSave].method = "POST"
           /\ req[p].category = c_Law /\ req[p].english = t_tort
           /\ req[lastSave].category = c_Law /\ req[lastSave].english = t_Tort
           /\ DictHas(D, c_Law)
           /\ DictHas(DictGet(D, c_Law), t_Tort)
           /\ ~DictHas(DictGet(D, c_Law), t_tort)

\* C10: after save_data(d) for a well-formed d, with no write in between,
\* load_data() returns d.
C10_RoundTrip ==
    (arg.has /\ loaded.has) => loaded.data = arg.data

\* C10: a dataset of two categories, one of them with two words, came back
C10_Witness ==
    /\ arg.has
    /\ loaded.has
    /\ loaded.data = arg.data
    /\ Len(arg.data) = 2
    /\ \E i \in 1..2 : Len(arg.data[i][2]) = 2
    /\ before.file = Written(JsonDump(arg.data))

\* the body of a POST /api/words names a term, a translation and a category
ValidApiPost(b) == ~Blank(b.english) /\ ~Blank(b.russian) /\ ~Blank(b.category)

\* the form of a POST /add_word names a term, a translation and a category
ValidFormPost(f) ==
    /\ ~Blank(f.english)
    /\ ~Blank(f.russian)
    /\ ~(Blank(f.category) /\ Blank(f.new_category))

\* C11: a valid upsert request (POST /api/words or POST /add_word) that
\* repeats the request handled just before it leaves the persisted dataset
\* equal to the dataset the first of the two left.
C11_UpsertIdempotent ==
    (/\ before.repeat
     /\ \/ response.route = "POST /api/words" /\ ValidApiPost(before.body)
        \/ response.route = "POST /add_word" /\ ValidFormPost(before.body))
    => Persisted(file) = Persisted(before.file)

\* C11: the second of two equal API upserts of a word into a new category
C11_Witness ==
    /\ before.repeat
    /\ response.route = "POST /api/words"
    /\ before.body = [english |-> t_Tort, russian |-> r_x_padded, category |-> c_Law]
    /\ \A D \in {Persisted(file)} :
           /\ DictHas(D, c_Law)
           /\ DictGet(D, c_Law) = <<<<t_Tort, r_x_padded>>>>

\* C12: a request other than a successful start leaves the items of the
\* session, in content and order, and its category as they were, whatever
\* it did to the dataset; the correct_answer of a submission is the
\* translation the snapshot holds at the cursor.
C12_SnapshotFixed ==
    /\ ~(response.route = "GET /test" /\ response.tag = "page")
       => /\ session.test_words = before.session.test_words
          /\ session.category = before.session.category
    /\ (response.route = "POST /check_answer"
          /\ "correct_answer" \in DOMAIN response.body)
       => response.body.correct_answer
            = before.session.test_words[before.session.current_index + 1][2]

\* C12: a submission on a quiz of the first seed category, after an upsert
\* gave the current term another translation in the dataset
C12_Witness ==
    /\ response.route = "POST /check_answer"
    /\ "correct_answer" \in DOMAIN response.body
    /\ before.session.category = s_civil
    /\ before.session.test_words[before.session.current_index + 1][1] = s_contract
    /\ response.body.correct_answer = r_dogovor
    /\ DictGet(DictGet(Persisted(before.file), s_civil), s_contract) = r_x
    /\ session.test_words = DictItems(DictGet(get_default_data, s_civil))

\* C13: a start on a category that the dataset does not have, or has with
\* no words, answers with a redirect to the category selection and leaves
\* the four session fields as they were.
C13_FailedStartKeepsSession ==
    response.route = "GET /test" =>
        \A c \in {before.view_args[1]} : \A B \in {Persisted(before.file)} :
            (~DictHas(B, c) \/ DictGet(B, c) = <<>>)
            => /\ response = Redirect("GET /test", "testing")
               /\ session = before.session

\* C13: a start on a category without words found a quiz in progress with
\* a scored answer
C13_Witness ==
    /\ response.route = "GET /test"
    /\ response.tag = "redirect"
    /\ \A c \in {before.view_args[1]} : \A B \in {Persisted(before.file)} :
           DictHas(B, c) /\ DictGet(B, c) = <<>>
    /\ InProgress(before.session)
    /\ before.session.score > 0
    /\ session = before.session

\* C14: a DELETE /api/words that names a category the dataset does not
\* have, or a term the named category does not have, answers success and
\* leaves the persisted dataset equal to what the request found.
C14_AbsentDeleteIsNoop ==
    response.route = "DELETE /api/words" =>
        \A B \in {Persisted(before.file)} : \A b \in {before.body} :
            (\/ ~DictHas(B, b.category)
             \/ /\ Truthy(b.english)
                /\ ~DictHas(DictGet(B, b.category), b.english))
            => /\ response = Json("DELETE /api/words", [success |-> TRUE])
               /\ Persisted(file) = B

\* C14: a DELETE of a term that differs in case from the only term of its
\* category
C14_Witness ==
    /\ response.route = "DELETE /api/words"
    /\ before.body = [category |-> c_Law, english |-> t_tort]
    /\ DictHas(Persisted(before.file), c_Law)
    /\ DictGet(Persisted(before.file), c_Law) = <<<<t_Tort, r_x_padded>>>>
    /\ Persisted(file) = Persisted(before.file)

\* C15 (as claimed): a DELETE /api/words whose body gives an english field,
\* the empty string included, removes at most the entry of that term in the
\* named category: every other entry of the dataset the request found is
\* still in the persisted dataset, with its translation.
C15_GivenEnglishDeletesWordOnly ==
    (response.route = "DELETE /api/words" /\ before.body.english # None) =>
        \A B \in {Persisted(before.file)} : \A D \in {Persisted(file)} :
            \A i \in 1..Len(B) : \A j \in 1..Len(B[i][2]) :
                (B[i][1] # before.body.category
                   \/ B[i][2][j][1] # before.body.english)
                => /\ DictHas(D, B[i][1])
                   /\ DictHas(DictGet(D, B[i][1]), B[i][2][j][1])
                   /\ DictGet(DictGet(D, B[i][1]), B[i][2][j][1]) = B[i][2][j][2]

\* C16: GET /results, in every session state, reports the score, the number
\* of items and the category of the session, the percentage
\* score / total * 100 to one decimal (here in tenths) when total > 0 and 0
\* otherwise, and leaves the session and the file as they were.
C16_ResultsPureRead ==
    response.route = "GET /results" =>
        \A sc \in {before.session.score} :
        \A total \in {Len(before.session.test_words)} :
            /\ response.tag = "page"
            /\ response.body.score = sc
            /\ response.body.total = total
            /\ response.body.category = before.session.category
            /\ total = 0 => response.body.percentage = 0
            /\ total > 0 =>
                 \A p \in {response.body.percentage} :
                     /\ 2 * (p * total - 1000 * sc) <= total
                     /\ 2 * (1000 * sc - p * total) <= total
            /\ session = before.session
            /\ file = before.file

\* C16: the results of a quiz in progress, one of four items answered right
C16_Witness ==
    /\ response.route = "GET /results"
    /\ InProgress(session)
    /\ response.body.score = 1
    /\ response.body.total = 4
    /\ response.body.percentage = 250
    /\ response.body.category = s_civil

\* C17: a valid POST /add_word whose form gives a category and a
\* new_category, both non-empty, stores the word under new_category and
\* leaves every other category, the selected one included, with the word
\* mapping it had.
C17_NewCategoryPrecedence ==
    (/\ response.route = "POST /add_word"
     /\ ValidFormPost(before.body)
     /\ ~Blank(before.body.category)
     /\ ~Blank(before.body.new_category))
    => \A B \in {Persisted(before.file)} : \A D \in {Persisted(file)} :
       \A nc \in {Strip(before.body.new_category)} :
       \A e \in {Lower(Strip(before.body.english))} :
           /\ DictHas(D, nc)
           /\ DictHas(DictGet(D, nc), e)
           /\ DictGet(DictGet(D, nc), e) = Strip(before.body.russian)
           /\ \A i \in 1..Len(B) :
                  B[i][1] # nc => /\ DictHas(D, B[i][1])
                                 /\ DictGet(D, B[i][1]) = B[i][2]
           /\ \A i \in 1..Len(D) : D[i][1] # nc => DictHas(B, D[i][1])

\* C17: the form selected the first seed category and named a new one; the
\* word went to the new category, which the request created
C17_Witness ==
    /\ response.route = "POST /add_word"
    /\ before.body.category = s_civil
    /\ before.body.new_category = c_Law
    /\ ~DictHas(Persisted(before.file), c_Law)
    /\ \A D \in {Persisted(file)} :
           /\ DictHas(D, c_Law)
           /\ DictGet(D, c_Law) = <<<<t_tort, r_Y>>>>
           /\ DictGet(D, s_civil) = DictGet(get_default_data, s_civil)

\* the routes that are not meant to change the dataset
ReadRoutes ==
    {"GET /encyclopedia", "GET /testing", "GET /test", "POST /check_answer",
     "GET /results", "GET /add_word", "GET /edit_words", "GET /api/words"}

\* C18: a request on a read route leaves a file that exists and parses as
\* it was; the only write it can cause is the seed dataset into a file that
\* was absent.
C18_ReadsLeaveFile ==
    response.route \in ReadRoutes =>
        /\ before.file.kind = "json" => file = before.file
        /\ file # before.file =>
              /\ before.file.kind = "absent"
              /\ file = Written(JsonDump(get_default_data))

\* C18: a submission found a file that an upsert had changed and left it
C18_Witness ==
    /\ response.route = "POST /check_answer"
    /\ before.file.kind = "json"
    /\ before.file # Written(JsonDump(get_default_data))
    /\ file = before.file
    /\ session # before.session

\* the DELETE request r names a category the dataset does not have, or a
\* term the named category does not have
TargetsAbsent(r, data) ==
    \/ ~DictHas(data, r.category)
    \/ /\ Truthy(r.english)
       /\ ~DictHas(DictGet(data, r.category), r.english)

\* C19 (as claimed): when a DELETE /api/words whose target is absent from
\* the dataset it loaded runs at the same time as an upsert, then in every
\* interleaving of their load and save steps the word of the upsert is in
\* the persisted dataset once both have answered.
C19_NoopDeleteKeepsUpsert ==
    AllDone =>
        \A d \in Requests : \A u \in Requests :
            (/\ req[d].method = "DELETE"
             /\ req[u].method = "POST"
             /\ TargetsAbsent(req[d], local[d]))
            => \A D \in {Persisted(file)} :
                   /\ DictHas(D, JsonKey(req[u].category))
                   /\ DictHas(DictGet(D, JsonKey(req[u].category)),
                              JsonKey(req[u].english))
                   /\ DictGet(DictGet(D, JsonKey(req[u].category)),
                              JsonKey(req[u].english)) = req[u].russian

====
